---- MODULE Spec2Model ----
(***************************************************************************)
(* Lead evaluation, deduplication and two-store commit pipeline.           *)
(*                                                                         *)
(*   src/main.py                     LeadDetectionSystem.process_lead      *)
(*   src/scrapers/company_scraper.py CompanyScraper._fetch_news,           *)
(*                                   CompanyScraper.process_and_store_lead *)
(*   src/database/supabase_client.py MongoDBManager (document store)       *)
(*   src/embeddings/vector_store.py  VectorStore (vector index)            *)
(*   src/notifications/notifier.py   LeadNotifier                          *)
(*   src/app.py                      review dashboard                      *)
(*   src/scrapers/techcrunch_scraper.py TechCrunchScraper.scrape           *)
(*                                                                         *)
(* Every call to an external service (document store, vector index,        *)
(* embedding service, evaluators, webhook) is one step; each step picks    *)
(* one of the outcomes the call can have (success, or the exception the    *)
(* surrounding try/except turns into a return value).                      *)
(***************************************************************************)
EXTENDS Integers, Sequences, FiniteSets, TLC

\* ------------------------------------------------------------ bounds
\* caller-supplied lead ids are 1..NumIds
NumIds == 1
\* leads one scrape returns
MaxBatch == 2
\* leads the pending-review queue holds
MaxPending == 2
\* tokens of a feed entry's description
MaxContent == 3
\* post-block elements on the TechCrunch page
MaxArticles == 3

\* article urls
Urls == {1, 2}

\* ------------------------------------------------------------ program constants
\* config.SIMILARITY_THRESHOLD = 0.85, in hundredths
SIMILARITY_THRESHOLD == 85
\* the relevance bar of process_lead
COMMIT_RELEVANCE_MIN == 70
\* the relevance bar of _fetch_news
INGEST_RELEVANCE_MIN == 50
\* config.MAX_RETRIES
MAX_RETRIES == 3
\* config.RETRY_DELAY, in seconds
RETRY_DELAY == 5

Procs == {1, 2}
Ids == 1..NumIds
\* the articles the feed carries, as <<title, description>>
Articles == {<<1, 1>>, <<1, 2>>, <<2, 1>>}
\* the id key is absent from the lead dict
NoId == 0
\* the relevance_score key is absent from the lead dict
NoScore == -1
\* scores an evaluator returns: both sides of both bars, and one well above
Scores == {49, 50, 69, 70, 85}
\* value_type lists an evaluator returns
ValueTypes == {<<"none">>, <<"funding_round">>, <<"none", "funding_round">>}

\* ------------------------------------------------------------ embedding service and cosine metric
\* The text process_lead hands to check_duplicate: the title alone.
TitleText(lead) == <<lead.title>>

\* lead_text = f"{company} {title} {description}" (one tracked company).
LeadText(lead) == <<lead.title, lead.description>>

\* The embedding service is deterministic: one vector per text.
\* Vectors 1..3 embed the three lead texts, 4 and 5 the two bare titles.
generate_embedding(text) ==
    IF Len(text) = 2 THEN 2 * (text[1] - 1) + text[2] ELSE 3 + text[1]

\* Cosine similarity of two vectors as the index reports it, in hundredths.
\* Lead texts 1 and 2 sit exactly on the threshold, 2 and 3 above it, 1 and
\* 3 below; title 1 is close to the texts that carry it and to the text
\* whose description quotes it, title 2 is not.
Score(u, v) ==
    LET a == IF u <= v THEN u ELSE v
        b == IF u <= v THEN v ELSE u
    IN  CASE a = b -> 100
          [] a = 1 /\ b = 2 -> 85
          [] a = 2 /\ b = 3 -> 90
          [] a = 1 /\ b = 4 -> 88
          [] a = 2 /\ b = 4 -> 86
          [] a = 3 /\ b = 4 -> 87
          [] a = 3 /\ b = 5 -> 80
          [] OTHER -> 40

VARIABLES
    docs,       \* document store: db.leads, in insertion order
    vecs,       \* vector index: id -> vector
    pc,         \* per invocation: the call it is about to make
    path,       \* per invocation: which entry point runs
    cur,        \* per invocation: the lead dict
    emb,        \* per invocation: the local `embedding`
    rel,        \* per invocation: the local `relevance`
    val,        \* per invocation: the local `csm_value`
    ops,        \* per invocation: external calls issued so far, with outcome
    result,     \* per invocation: what the last call returned and why
    docs0,      \* per invocation: the document store when it started
    leads,      \* the batch _fetch_news has built and process_leads consumes
    scraping,   \* _fetch_news is still building the batch
    fetchLog,   \* the last feed entry _fetch_news evaluated
    run,        \* process_leads: the batch, the leads handled, the count
    pending,    \* st.session_state.pending_leads of the review session
    unique,     \* filter_duplicates: unique_leads so far
    slack,      \* the webhook POSTs of the current or last invocation
    notice,     \* a notifier of its own: its slack_enabled, its last notify
    tc,         \* TechCrunchScraper.scrape: its locals, attempts and result
    gate,       \* one pair of evaluations and what each call site decides
    norm        \* the last _generate_clean_description call and its result

vars == <<docs, vecs, pc, path, cur, emb, rel, val, ops, result, docs0,
          leads, scraping, fetchLog, run, pending, unique, slack,
          notice, tc, gate, norm>>

storeVars == <<docs, vecs>>
fetchVars == <<leads, scraping, fetchLog>>
reviewVars == <<pending, unique>>
utilVars == <<notice, tc, gate, norm>>

\* ------------------------------------------------------------ values
NoLead == [id |-> NoId, url |-> 0, title |-> 0, description |-> 0,
           relevance_score |-> NoScore]
NoRel == [is_relevant |-> FALSE, relevance_score |-> NoScore]
NoVal == [is_valuable |-> FALSE, value_type |-> <<>>]
NoEmb == 0
NoResult == [ret |-> FALSE, why |-> "none"]
NoFetch == [rel |-> NoRel, val |-> NoVal, kept |-> FALSE]
EmptyIndex == [i \in {} |-> 0]
\* process_leads has not returned
NoCount == -1
NoRun == [batch |-> <<>>, handled |-> <<>>, returns |-> <<>>,
          successful |-> 0, awaiting |-> FALSE, returned |-> NoCount]
\* notify has not been called
NoNotice == [enabled |-> FALSE, lead |-> NoLead, ret |-> FALSE,
             posts |-> <<>>]
\* no evaluation has been gated
NoGate == [rel |-> NoRel, val |-> NoVal, ingest |-> FALSE, commit |-> FALSE]
\* scrape has not been called
NoScrape == [pc |-> "idle", retries |-> 0, attempts |-> <<>>, waited |-> 0,
             articles |-> <<>>, leads |-> <<>>, returned |-> <<>>]
\* _generate_clean_description has not been called
NoNorm == [content |-> <<>>, cleaned |-> <<>>, failed |-> FALSE,
           returned |-> <<>>]

\* str(uuid.uuid4()): an id no lead in the stores, in the batch or in
\* flight has (the least one, all unused ids being alike)
UuidIds == (NumIds + 1)..(NumIds + Cardinality(Urls) + MaxBatch + 1)
UsedIds ==
    {docs[k].id : k \in 1..Len(docs)} \cup DOMAIN vecs
      \cup {leads[k].id : k \in 1..Len(leads)}
      \cup {pending[k].id : k \in 1..Len(pending)}
      \cup {unique[k].id : k \in 1..Len(unique)}
      \cup {cur[p].id : p \in {q \in Procs : pc[q] /= "idle"}}
uuid4 == CHOOSE i \in UuidIds \ UsedIds : \A j \in UuidIds \ UsedIds : i <= j

\* a default that lets the article through when the evaluator raises
RelevanceDefaultPassing == [is_relevant |-> TRUE, relevance_score |-> 100]

\* _evaluate_article_relevance when the call raises
RelevanceDefault == [is_relevant |-> FALSE, relevance_score |-> 0]
\* _evaluate_csm_value when the call raises
ValueDefault == [is_valuable |-> FALSE, value_type |-> <<"none">>]

RelevanceResults ==
    [is_relevant : BOOLEAN, relevance_score : Scores] \cup {RelevanceDefault}
ValueResults ==
    [is_valuable : BOOLEAN, value_type : ValueTypes] \cup {ValueDefault}

Idle == \A p \in Procs : pc[p] = "idle"

Init ==
    /\ docs = <<>>
    /\ vecs = EmptyIndex
    /\ pc = [p \in Procs |-> "idle"]
    /\ path = [p \in Procs |-> "none"]
    /\ cur = [p \in Procs |-> NoLead]
    /\ emb = [p \in Procs |-> NoEmb]
    /\ rel = [p \in Procs |-> NoRel]
    /\ val = [p \in Procs |-> NoVal]
    /\ ops = [p \in Procs |-> <<>>]
    /\ result = [p \in Procs |-> NoResult]
    /\ docs0 = [p \in Procs |-> <<>>]
    /\ leads = <<>>
    /\ scraping = FALSE
    /\ fetchLog = NoFetch
    /\ run = NoRun
    /\ pending = <<>>
    /\ unique = <<>>
    /\ slack = <<>>
    /\ notice = NoNotice
    /\ tc = NoScrape
    /\ gate = NoGate
    /\ norm = NoNorm


\* ------------------------------------------------------------ document store (MongoDBManager)
NoDoc == [id |-> NoId, url |-> 0, vector_embedding |-> NoEmb]

\* positions of the records matching a filter
ByUrl(d, url) == {k \in 1..Len(d) : d[k].url = url}
ById(d, id) == {k \in 1..Len(d) : d[k].id = id}

Min(S) == CHOOSE k \in S : \A j \in S : k <= j

\* db.leads.find_one({"url": url}): the record, or None
get_lead_by_url(d, url) ==
    IF ByUrl(d, url) = {} THEN NoDoc ELSE d[Min(ByUrl(d, url))]

\* the collection without its unique index
NoUniqueIndex(d, url) == TRUE

\* the unique index on url (create_index("url", unique=True)) lets the
\* insert through only when no record has the url
UniqueUrlFree(d, url) == ByUrl(d, url) = {}

\* the record insert_lead builds from the lead dict and the embedding
LeadRecord(lead, embedding) ==
    [id |-> lead.id, url |-> lead.url, vector_embedding |-> embedding]

Remove(d, k) == [j \in 1..(Len(d) - 1) |-> IF j < k THEN d[j] ELSE d[j + 1]]

\* db.leads.find().sort("created_at", -1).limit(limit): created_at is the
\* time of the insert, so the newest record is the last one inserted
get_recent_leads(d, limit) ==
    LET n == IF limit < Len(d) THEN limit ELSE Len(d)
    IN  [k \in 1..n |-> d[Len(d) + 1 - k]]

\* ------------------------------------------------------------ vector index (VectorStore)
\* insert_vector that reports success without writing
UpsertDropped(index, id, vector) == index

\* index.upsert(vectors=[(id, vector, metadata)])
Upsert(index, id, vector) ==
    [i \in (DOMAIN index) \cup {id} |-> IF i = id THEN vector ELSE index[i]]

Max(S) == CHOOSE k \in S : \A j \in S : k >= j

\* find_similar(vector, top_k=1): the score of the single nearest neighbour,
\* or no match at all on an empty index
NoMatch == -1
find_similar(index, vector) ==
    IF DOMAIN index = {} THEN NoMatch
    ELSE Max({Score(index[i], vector) : i \in DOMAIN index})

\* results and results[0]["score"] > threshold
AboveThreshold(score) == score > SIMILARITY_THRESHOLD

\* check_duplicate(text) when both of its calls succeed
check_duplicate(index, text) ==
    LET top == find_similar(index, generate_embedding(text))
    IN  top /= NoMatch /\ AboveThreshold(top)

\* ------------------------------------------------------------ gates
\* process_lead: not (not is_relevant or relevance_score < 70)
RelevanceGate(r) == r.is_relevant /\ r.relevance_score >= COMMIT_RELEVANCE_MIN

\* a value gate that looks at value_type alone
ValueGateByType(v) == v.value_type /= <<"none">>

\* process_lead: not (not is_valuable or value_type == ["none"])
ValueGate(v) == v.is_valuable /\ v.value_type /= <<"none">>

\* _fetch_news: not (not is_relevant or relevance_score < 50)
IngestRelevanceGate(r) == r.is_relevant /\ r.relevance_score >= INGEST_RELEVANCE_MIN

\* _fetch_news: not (not is_valuable)
IngestValueGate(v) == v.is_valuable

\* every score the evaluation tool may return (0-100) and every result
\* built from one
AllScores == 0..100
AllRelevanceResults == [is_relevant : BOOLEAN, relevance_score : AllScores]

\* an ingestion gate with a bar above the commit bar
IngestGatesStricter(r, v) ==
    r.is_relevant /\ r.relevance_score > COMMIT_RELEVANCE_MIN
      /\ IngestValueGate(v)

\* _fetch_news keeps the entry: neither `continue` is taken
IngestGates(r, v) == IngestRelevanceGate(r) /\ IngestValueGate(v)

\* process_lead goes on to the embedding: neither `return False` is taken
CommitGates(r, v) == RelevanceGate(r) /\ ValueGate(v)

\* one relevance result and one value result at both call sites
gate_both(r, v) ==
    /\ gate' = [rel |-> r, val |-> v, ingest |-> IngestGates(r, v),
                commit |-> CommitGates(r, v)]
    /\ UNCHANGED <<storeVars, fetchVars, pc, path, cur, emb, rel, val, ops,
                   result, docs0, run, reviewVars, slack, notice, tc, norm>>

\* ------------------------------------------------------------ notifier (LeadNotifier)
\* the company whose news is scraped: lead["company"]
TrackedCompany == "Couchbase"

\* LeadNotifier.__init__: self.slack_enabled =
\* ENABLE_SLACK_NOTIFICATIONS and SLACK_WEBHOOK_URL is not None
SlackEnabled(flag, webhook_set) == flag /\ webhook_set

\* the pipeline and the dashboard run with the flag on (config.py) and the
\* webhook URL set in the environment
slack_enabled == SlackEnabled(TRUE, TRUE)

RequiredFields ==
    {"greeting", "main_points", "action_suggestions", "urgency_level"}

\* what the message-generation call comes back with: arguments that parse
\* to a payload with some of the fields, a response without tool calls or
\* without arguments, arguments that are not JSON, or an exception
Generations ==
    [kind : {"payload"}, fields : SUBSET RequiredFields]
      \cup [kind : {"no_tool_calls", "no_arguments", "unparseable", "raises"},
            fields : {{}}]

\* requests.post: the status of the response, or a transport exception
PostOutcomes == {"200", "500", "exception"}

\* the message built from the payload: greeting, header with the company,
\* <url|title>, main points, actions, urgency
StructuredMessage(lead) ==
    [template |-> "structured", company |-> TrackedCompany,
     url |-> lead.url, title |-> lead.title]

\* a fallback that names the article without linking to it
FallbackWithoutLink(lead) ==
    [template |-> "fallback", company |-> TrackedCompany,
     url |-> 0, title |-> lead.title]

\* _generate_fallback_message: company, <url|title>, one fixed sentence
generate_fallback_message(lead) ==
    [template |-> "fallback", company |-> TrackedCompany,
     url |-> lead.url, title |-> lead.title]

\* _generate_slack_message
generate_slack_message(lead, gen) ==
    IF gen.kind = "payload" /\ RequiredFields \subseteq gen.fields
      THEN StructuredMessage(lead)
      ELSE generate_fallback_message(lead)

\* send_slack_notification: the value returned and the POSTs made
send_slack_notification(enabled, lead, gen, post) ==
    IF ~enabled THEN [ret |-> FALSE, posts |-> <<>>]
    ELSE [ret |-> post = "200",
          posts |-> <<[text |-> generate_slack_message(lead, gen),
                       status |-> post]>>]

\* notify of a notifier built with that slack_enabled: the value returned
\* and the POSTs made. success starts True and only an enabled channel
\* can lower it
LeadNotifier_notify(enabled, lead, gen, post) ==
    IF enabled THEN send_slack_notification(enabled, lead, gen, post)
    ELSE [ret |-> TRUE, posts |-> <<>>]

\* notify of the notifier the pipeline and the dashboard hold
notifier_notify(lead, gen, post) ==
    LeadNotifier_notify(slack_enabled, lead, gen, post)

\* ------------------------------------------------------------ steps
\* move invocation p to its next call, recording the call just made
Goto(p, next, event) ==
    /\ pc' = [pc EXCEPT ![p] = next]
    /\ ops' = [ops EXCEPT ![p] = Append(@, event)]
    /\ UNCHANGED <<result, run, reviewVars, slack>>

\* invocation p returns, having called the notifier
Leave(p, ret, why, event) ==
    /\ pc' = [pc EXCEPT ![p] = "idle"]
    /\ ops' = [ops EXCEPT ![p] = Append(@, event)]
    /\ result' = [result EXCEPT ![p] = [ret |-> ret, why |-> why]]
    /\ UNCHANGED <<run, reviewVars>>

\* invocation p returns
Return(p, ret, why, event) ==
    /\ Leave(p, ret, why, event)
    /\ UNCHANGED slack

\* a failing lookup that takes the whole invocation down
LookupErrorRaised(p, next, event) == Return(p, FALSE, "exception", event)

\* a duplicate lookup raised: get_lead_by_url and check_duplicate log the
\* exception and answer None, and the caller goes on as after a miss
LookupError(p, next, event) == Goto(p, next, event)

Begin(p, entry, first, lead) ==
    /\ pc[p] = "idle"
    /\ path' = [path EXCEPT ![p] = entry]
    /\ pc' = [pc EXCEPT ![p] = first]
    /\ ops' = [ops EXCEPT ![p] = <<>>]
    /\ result' = [result EXCEPT ![p] = NoResult]
    /\ docs0' = [docs0 EXCEPT ![p] = docs]
    /\ emb' = [emb EXCEPT ![p] = NoEmb]
    /\ rel' = [rel EXCEPT ![p] = NoRel]
    /\ val' = [val EXCEPT ![p] = NoVal]
    /\ cur' = [cur EXCEPT ![p] =
                 IF lead.id = NoId THEN [lead EXCEPT !.id = uuid4] ELSE lead]
    /\ slack' = <<>>
    /\ UNCHANGED <<storeVars, reviewVars, utilVars>>

\* leads a caller hands to process_lead: not evaluated yet, id optional
Lead(id, url, article, score) ==
    [id |-> id, url |-> url, title |-> article[1],
     description |-> article[2], relevance_score |-> score]

CallerLeads ==
    {Lead(id, url, a, NoScore) : id \in Ids \cup {NoId}, url \in Urls,
                                 a \in Articles}

\* leads as _fetch_news builds them (a fresh id, a score that passed the
\* ingestion bar: below or at the commit bar), or with an id the caller chose
IngestedLeads ==
    {Lead(id, url, a, s) : id \in Ids \cup {NoId}, url \in Urls,
                           a \in Articles, s \in {69, 70}}

\* process_lead(lead), called directly
process_lead(p, lead) ==
    /\ leads = <<>>
    /\ Begin(p, "process_lead", "pl_dup", lead)
    /\ UNCHANGED <<fetchVars, run>>

\* process_leads: the loop hands the next lead of the batch to process_lead
process_leads(p) ==
    /\ leads /= <<>> /\ ~run.awaiting
    /\ Begin(p, "process_lead", "pl_dup", Head(leads))
    /\ leads' = Tail(leads)
    /\ scraping' = FALSE
    /\ fetchLog' = NoFetch
    /\ run' = [run EXCEPT !.batch = IF run.handled = <<>> THEN leads ELSE @,
                          !.handled = Append(@, Head(leads).id),
                          !.awaiting = TRUE]

\* a loop that counts every lead it handed to process_lead
process_leads_count_all(p) ==
    /\ pc[p] = "idle" /\ run.awaiting
    /\ run' = [run EXCEPT !.successful = @ + 1,
                          !.awaiting = FALSE,
                          !.returns = Append(@, result[p].ret)]
    /\ UNCHANGED <<storeVars, fetchVars, pc, path, cur, emb, rel, val, ops,
                   result, docs0, utilVars, reviewVars, slack>>

\* if self.process_lead(lead): successful += 1
process_leads_count(p) ==
    /\ pc[p] = "idle" /\ run.awaiting
    /\ run' = [run EXCEPT !.successful = IF result[p].ret THEN @ + 1 ELSE @,
                          !.awaiting = FALSE,
                          !.returns = Append(@, result[p].ret)]
    /\ UNCHANGED <<storeVars, fetchVars, pc, path, cur, emb, rel, val, ops,
                   result, docs0, utilVars, reviewVars, slack>>

\* the loop is over: return successful
process_leads_return ==
    /\ Idle /\ leads = <<>> /\ ~run.awaiting
    /\ run.handled /= <<>> /\ run.returned = NoCount
    /\ run' = [run EXCEPT !.returned = run.successful]
    /\ UNCHANGED <<storeVars, fetchVars, pc, path, cur, emb, rel, val, ops,
                   result, docs0, utilVars, reviewVars, slack>>

\* process_and_store_lead(lead)
process_and_store_lead(p, lead) ==
    /\ leads = <<>>
    /\ Begin(p, "process_and_store_lead", "ps_url", lead)
    /\ UNCHANGED <<fetchVars, run>>


\* the text each entry point hands to vector_store.check_duplicate:
\* process_lead lead["title"], the other two lead_text / lead_content
CheckText(entry, lead) ==
    IF entry = "process_lead" THEN TitleText(lead) ELSE LeadText(lead)

\* ------------------------------------------------------------ process_lead, up to the commit
\* duplicate = self.vector_store.check_duplicate(lead["title"])
pl_dup(p) ==
    /\ pc[p] = "pl_dup"
    /\ \/ /\ check_duplicate(vecs, CheckText(path[p], cur[p]))
          /\ Return(p, FALSE, "duplicate", "semantic:hit")
       \/ /\ ~check_duplicate(vecs, CheckText(path[p], cur[p]))
          /\ Goto(p, "pl_rel", "semantic:miss")
       \/ \* the embedding call or the index query raises: check_duplicate
          \* answers None
          /\ LookupError(p, "pl_rel", "semantic:err")
    /\ UNCHANGED <<storeVars, fetchVars, path, cur, emb, rel, val, docs0, utilVars>>

\* relevance = self.scraper._evaluate_article_relevance(...)
pl_rel(p) ==
    /\ pc[p] = "pl_rel"
    /\ \E r \in RelevanceResults :
          /\ rel' = [rel EXCEPT ![p] = r]
          /\ IF RelevanceGate(r)
               THEN Goto(p, "pl_val", "relevance:pass")
               ELSE Return(p, FALSE, "not_relevant", "relevance:fail")
    /\ UNCHANGED <<storeVars, fetchVars, path, cur, emb, val, docs0, utilVars>>

\* csm_value = self.scraper._evaluate_csm_value(...); lead.update({...})
pl_val(p) ==
    /\ pc[p] = "pl_val"
    /\ \E v \in ValueResults :
          /\ val' = [val EXCEPT ![p] = v]
          /\ IF ValueGate(v)
               THEN /\ Goto(p, "pl_embed", "value:pass")
                    /\ cur' = [cur EXCEPT ![p].relevance_score =
                                                rel[p].relevance_score]
               ELSE /\ Return(p, FALSE, "no_value", "value:fail")
                    /\ UNCHANGED cur
    /\ UNCHANGED <<storeVars, fetchVars, path, emb, rel, docs0, utilVars>>

\* an embedding step that goes on without a vector when the call fails
embed_unchecked(p, here, next) ==
    /\ pc[p] = here
    /\ \/ /\ Goto(p, next, "embed:ok")
          /\ emb' = [emb EXCEPT ![p] = generate_embedding(LeadText(cur[p]))]
       \/ /\ Goto(p, next, "embed:err")
          /\ UNCHANGED emb
    /\ UNCHANGED <<storeVars, fetchVars, path, cur, rel, val, docs0, utilVars>>

\* embedding = self.vector_store.generate_embedding(lead_text): the call
\* raises on a service error, on an empty text and on a vector whose length
\* is not VECTOR_DIMENSION
embed(p, here, next) ==
    /\ pc[p] = here
    /\ \/ /\ Goto(p, next, "embed:ok")
          /\ emb' = [emb EXCEPT ![p] = generate_embedding(LeadText(cur[p]))]
       \/ \* generate_embedding re-raises; the caller's except returns False
          /\ Return(p, FALSE, "exception", "embed:err")
          /\ UNCHANGED emb
    /\ UNCHANGED <<storeVars, fetchVars, path, cur, rel, val, docs0, utilVars>>

pl_embed(p) == embed(p, "pl_embed", "store")

\* ------------------------------------------------------------ process_and_store_lead, up to the commit
\* existing_lead = self.db.get_lead_by_url(lead["url"])
ps_url(p) ==
    /\ pc[p] = "ps_url"
    /\ \/ /\ get_lead_by_url(docs, cur[p].url) /= NoDoc
          /\ Return(p, FALSE, "duplicate", "url_lookup:hit")
       \/ /\ get_lead_by_url(docs, cur[p].url) = NoDoc
          /\ Goto(p, "ps_embed", "url_lookup:miss")
       \/ \* find_one raises: get_lead_by_url answers None
          /\ LookupError(p, "ps_embed", "url_lookup:err")
    /\ UNCHANGED <<storeVars, fetchVars, path, cur, emb, rel, val, docs0, utilVars>>

ps_embed(p) == embed(p, "ps_embed", "ps_dup")

\* duplicate = self.vector_store.check_duplicate(lead_text)
ps_dup(p) ==
    /\ pc[p] = "ps_dup"
    /\ \/ /\ check_duplicate(vecs, CheckText(path[p], cur[p]))
          /\ Return(p, FALSE, "duplicate", "semantic:hit")
       \/ /\ ~check_duplicate(vecs, CheckText(path[p], cur[p]))
          /\ Goto(p, "store", "semantic:miss")
       \/ /\ LookupError(p, "store", "semantic:err")
    /\ UNCHANGED <<storeVars, fetchVars, path, cur, emb, rel, val, docs0, utilVars>>

\* ------------------------------------------------------------ check_duplicate_lead (review dashboard)
\* leads as _fetch_news hands them to the dashboard
ScrapedLeads ==
    {Lead(NoId, url, a, INGEST_RELEVANCE_MIN) : url \in Urls, a \in Articles}

\* check_duplicate_lead(lead, components), called on one scraped lead
check_duplicate_lead(p, lead) ==
    /\ leads = <<>>
    /\ Begin(p, "check_duplicate_lead", "cd_url", lead)
    /\ UNCHANGED <<fetchVars, run>>

\* if components["db"].get_lead_by_url(lead["url"]): return True
cd_url(p) ==
    /\ pc[p] = "cd_url"
    /\ \/ /\ get_lead_by_url(docs, cur[p].url) /= NoDoc
          /\ Return(p, TRUE, "duplicate", "url_lookup:hit")
       \/ /\ get_lead_by_url(docs, cur[p].url) = NoDoc
          /\ Goto(p, "cd_sem", "url_lookup:miss")
       \/ /\ LookupError(p, "cd_sem", "url_lookup:err")
    /\ UNCHANGED <<storeVars, fetchVars, path, cur, emb, rel, val, docs0, utilVars>>

\* if components["vector_store"].check_duplicate(lead_text): return True
cd_sem(p) ==
    /\ pc[p] = "cd_sem"
    /\ \/ /\ check_duplicate(vecs, CheckText(path[p], cur[p]))
          /\ Return(p, TRUE, "duplicate", "semantic:hit")
       \/ /\ ~check_duplicate(vecs, CheckText(path[p], cur[p]))
          /\ Goto(p, "cd_pend", "semantic:miss")
       \/ /\ LookupError(p, "cd_pend", "semantic:err")
    /\ UNCHANGED <<storeVars, fetchVars, path, cur, emb, rel, val, docs0, utilVars>>

\* a pending check that never finds anything
NotPending(queue, lead) == FALSE

\* for pending_lead in st.session_state.pending_leads:
\*     if pending_lead['url'] == lead['url']: return True
InPending(queue, lead) == \E k \in 1..Len(queue) : queue[k].url = lead.url

\* the check against the pending-review queue; return False after it
cd_pend(p) ==
    /\ pc[p] = "cd_pend"
    /\ IF InPending(pending, cur[p])
         THEN Return(p, TRUE, "duplicate", "pending:hit")
         ELSE Return(p, FALSE, "unique", "pending:miss")
    /\ UNCHANGED <<storeVars, fetchVars, path, cur, emb, rel, val, docs0, utilVars>>

CheckDuplicate(p) == cd_url(p) \/ cd_sem(p) \/ cd_pend(p)

\* ------------------------------------------------------------ the commit, common to both entry points
\* a store step that does not look at what the insert returned
store_unchecked(p) ==
    /\ pc[p] = "store"
    /\ \/ /\ Goto(p, "vector", "insert:err")
          /\ UNCHANGED docs
       \/ /\ UniqueUrlFree(docs, cur[p].url)
          /\ docs' = Append(docs, LeadRecord(cur[p], emb[p]))
          /\ \/ Goto(p, "vector", "insert:ok")
             \/ Goto(p, "vector", "insert:unread")
    /\ UNCHANGED <<vecs, fetchVars, path, cur, emb, rel, val, docs0, utilVars>>

\* stored_lead = self.db.store_lead(lead, embedding)
store(p) ==
    /\ pc[p] = "store"
    /\ \/ \* insert_one raises (duplicate key, or the store is unreachable)
          /\ Return(p, FALSE, "store_failed", "insert:err")
          /\ UNCHANGED docs
       \/ /\ UniqueUrlFree(docs, cur[p].url)
          /\ docs' = Append(docs, LeadRecord(cur[p], emb[p]))
          /\ \/ /\ Goto(p, "vector", "insert:ok")
             \/ \* the record is in, the read-back find_one raises:
                \* insert_lead answers None
                Return(p, FALSE, "store_failed", "insert:unread")
    /\ UNCHANGED <<vecs, fetchVars, path, cur, emb, rel, val, docs0, utilVars>>

\* vector_success = self.vector_store.insert_vector(id=lead["id"], ...)
vector(p) ==
    /\ pc[p] = "vector"
    /\ \/ /\ vecs' = Upsert(vecs, cur[p].id, emb[p])
          /\ Goto(p, "notify", "upsert:ok")
       \/ /\ Goto(p, "cleanup", "upsert:err")
          /\ UNCHANGED vecs
    /\ UNCHANGED <<docs, fetchVars, path, cur, emb, rel, val, docs0, utilVars>>

\* a cleanup that deletes every record with the id (delete_many)
delete_many(d, id) == {SelectSeq(d, LAMBDA r : r.id /= id)}

\* the stores db.leads.delete_one({"id": id}) can leave: one matching
\* record is gone, which one is the store's choice
delete_one(d, id) ==
    IF ById(d, id) = {} THEN {d} ELSE {Remove(d, k) : k \in ById(d, id)}

\* a cleanup whose exception escapes process_lead and ends the batch loop
cleanup_raises(p) ==
    /\ pc[p] = "cleanup"
    /\ \/ /\ docs' \in delete_one(docs, cur[p].id)
          /\ Return(p, FALSE, "vector_failed", "delete:ok")
          /\ UNCHANGED fetchVars
       \/ /\ pc' = [pc EXCEPT ![p] = "idle"]
          /\ ops' = [ops EXCEPT ![p] = Append(@, "delete:err")]
          /\ result' = [result EXCEPT ![p] = [ret |-> FALSE,
                                               why |-> "exception"]]
          /\ leads' = <<>>
          /\ run' = [run EXCEPT !.awaiting = FALSE]
          /\ UNCHANGED <<docs, scraping, fetchLog, reviewVars, slack>>
    /\ UNCHANGED <<vecs, path, cur, emb, rel, val, docs0, utilVars>>

\* self.db.leads.delete_one({"id": lead["id"]}); return False
cleanup(p) ==
    /\ pc[p] = "cleanup"
    /\ \/ /\ docs' \in delete_one(docs, cur[p].id)
          /\ Return(p, FALSE, "vector_failed", "delete:ok")
       \/ \* delete_one raises: the except of the entry point returns False
          /\ Return(p, FALSE, "exception", "delete:err")
          /\ UNCHANGED docs
    /\ UNCHANGED <<vecs, fetchVars, path, cur, emb, rel, val, docs0, utilVars>>

\* a notify step that posts a second time when the first POST failed
notify_with_retry(p) ==
    /\ pc[p] = "notify"
    /\ \E gen \in Generations, post \in PostOutcomes :
          LET sent == notifier_notify(cur[p], gen, post)
          IN  /\ slack' = slack \o sent.posts
                             \o (IF sent.ret THEN <<>> ELSE sent.posts)
              /\ Leave(p, TRUE, "ok",
                       IF sent.ret THEN "notify:ok" ELSE "notify:fail")
    /\ UNCHANGED <<storeVars, fetchVars, path, cur, emb, rel, val, docs0, utilVars>>

\* notification_success = notifier.notify(stored_lead); return True
notify(p) ==
    /\ pc[p] = "notify"
    /\ \E gen \in Generations, post \in PostOutcomes :
          LET sent == notifier_notify(cur[p], gen, post)
          IN  /\ slack' = slack \o sent.posts
              /\ Leave(p, TRUE, "ok",
                       IF sent.ret THEN "notify:ok" ELSE "notify:fail")
    /\ UNCHANGED <<storeVars, fetchVars, path, cur, emb, rel, val, docs0, utilVars>>

\* ------------------------------------------------------------ ingestion
\* one iteration of the loop of _fetch_news over feed.entries: the two
\* evaluations, and the lead dict of an entry that passes both
EvaluateEntry(url, article, r, v) ==
    IF ~IngestRelevanceGate(r)
      THEN /\ fetchLog' = [rel |-> r, val |-> NoVal, kept |-> FALSE]
           /\ UNCHANGED <<leads, scraping>>
      ELSE IF ~IngestValueGate(v)
      THEN /\ fetchLog' = [rel |-> r, val |-> v, kept |-> FALSE]
           /\ UNCHANGED <<leads, scraping>>
      ELSE /\ fetchLog' = [rel |-> r, val |-> v, kept |-> TRUE]
           /\ leads' = Append(leads,
                  Lead(uuid4, url, article, r.relevance_score))
           /\ scraping' = TRUE

\* _fetch_news called by scrape() in a scraping cycle
fetch_entry(url, article, r, v) ==
    /\ Idle
    /\ \A p \in Procs : path[p] = "none"
    /\ leads = <<>> \/ scraping
    /\ Len(leads) < MaxBatch
    /\ EvaluateEntry(url, article, r, v)
    /\ UNCHANGED <<storeVars, pc, path, cur, emb, rel, val, ops, result,
                   docs0, utilVars, run, reviewVars, slack>>

\* ------------------------------------------------------------ content normalizer
\* tokens of entry.description: markup, a link, words
Markup == {"<p>", "https://t.co/a"}
Words == {"Acme", "raises"}
RECURSIVE SeqsUpTo(_, _)
SeqsUpTo(S, n) ==
    IF n = 0 THEN {<<>>}
    ELSE LET shorter == SeqsUpTo(S, n - 1)
         IN  shorter \cup {Append(q, x) : q \in shorter, x \in S}
Contents == SeqsUpTo(Markup \cup Words, MaxContent)

\* _clean_html_content: the text without tags and links; the input itself
\* when the parser raises
clean_html_content(html_content, parsed) ==
    IF parsed THEN SelectSeq(html_content, LAMBDA t : t \notin Markup)
              ELSE html_content

\* what chat.completions.create comes back with
SummaryOutcomes == {"summary", "no_content", "raises"}
\* response.choices[0].message.content.strip()
Summary(text) == <<"Summary:">> \o text

\* _generate_clean_description: the summary of the cleaned text; on any
\* exception (the call raises, message.content is None) `return content`
generate_clean_description(content, parsed, outcome) ==
    LET cleaned_content == clean_html_content(content, parsed)
    IN  IF outcome = "summary" THEN Summary(cleaned_content)
        ELSE content

\* clean_description = self._generate_clean_description(raw_description)
normalize(content, parsed, outcome) ==
    /\ norm' = [content |-> content,
                cleaned |-> clean_html_content(content, parsed),
                failed |-> outcome /= "summary",
                returned |-> generate_clean_description(content, parsed,
                                                        outcome)]
    /\ UNCHANGED <<storeVars, fetchVars, pc, path, cur, emb, rel, val, ops,
                   result, docs0, run, reviewVars, slack, notice, tc, gate>>

\* ------------------------------------------------------------ notifier under any configuration
\* LeadNotifier() under a configuration, then notify(lead)
notify_call(flag, webhook_set, lead, gen, post) ==
    LET enabled == SlackEnabled(flag, webhook_set)
        sent == LeadNotifier_notify(enabled, lead, gen, post)
    IN  /\ notice' = [enabled |-> enabled, lead |-> lead, ret |-> sent.ret,
                      posts |-> sent.posts]
        /\ UNCHANGED <<storeVars, fetchVars, pc, path, cur, emb, rel, val,
                       ops, result, docs0, run, reviewVars, slack, tc, gate,
                       norm>>

\* ------------------------------------------------------------ TechCrunchScraper.scrape
\* a post-block element: the url of the article it links to, or an
\* element _parse_article cannot read (it returns None)
Unparsed == 0
Elements == Urls \cup {Unparsed}
Pages == SeqsUpTo(Elements, MaxArticles)

\* for article in articles: article_data = self._parse_article(article);
\* if article_data: leads.append(article_data)
ParsedLeads(articles) == SelectSeq(articles, LAMBDA e : e /= Unparsed)

ScrapeFrame ==
    UNCHANGED <<storeVars, fetchVars, pc, path, cur, emb, rel, val, ops,
                result, docs0, run, reviewVars, slack, notice, gate, norm>>

\* scrape(): leads = []; retries = MAX_RETRIES
tc_scrape ==
    /\ tc.pc \in {"idle", "done"}
    /\ tc' = [NoScrape EXCEPT !.pc = "request", !.retries = MAX_RETRIES]
    /\ ScrapeFrame

\* a request-level error that leaves retries as it was
tc_request_error_unbounded ==
    /\ tc.pc = "request" /\ tc.retries > 0
    /\ tc' = [tc EXCEPT !.attempts = IF Len(@) <= MAX_RETRIES
                                       THEN Append(@, "request_error")
                                       ELSE @,
                         !.pc = "sleep"]
    /\ ScrapeFrame

\* except requests.RequestException: retries -= 1; sleep if retries > 0,
\* else return []
tc_request_error ==
    /\ tc.pc = "request" /\ tc.retries > 0
    /\ tc' = [tc EXCEPT !.attempts = Append(@, "request_error"),
                         !.retries = @ - 1,
                         !.pc = IF tc.retries - 1 > 0 THEN "sleep"
                                                      ELSE "done",
                         !.returned = <<>>]
    /\ ScrapeFrame

\* requests.get and raise_for_status pass, the page is parsed:
\* return leads
tc_request_ok(articles) ==
    /\ tc.pc = "request" /\ tc.retries > 0
    /\ tc' = [tc EXCEPT !.attempts = Append(@, "ok"),
                         !.articles = articles,
                         !.leads = tc.leads \o ParsedLeads(articles),
                         !.returned = tc.leads \o ParsedLeads(articles),
                         !.pc = "done"]
    /\ ScrapeFrame

\* except Exception (the parser raises): return []
tc_request_raises ==
    /\ tc.pc = "request" /\ tc.retries > 0
    /\ tc' = [tc EXCEPT !.attempts = Append(@, "error"),
                         !.returned = <<>>,
                         !.pc = "done"]
    /\ ScrapeFrame

\* time.sleep(RETRY_DELAY), then the while loop tests retries > 0
tc_sleep ==
    /\ tc.pc = "sleep"
    /\ tc' = [tc EXCEPT !.waited = @ + RETRY_DELAY, !.pc = "request"]
    /\ ScrapeFrame

\* ------------------------------------------------------------ review dashboard (app.py)
\* no handler of the dashboard is running
Quiet == Idle /\ leads = <<>> /\ run = NoRun

\* Start Scraping: scraped_leads = scrape_leads(...), one feed entry
scrape_leads(url, article, r, v) ==
    /\ Idle /\ run = NoRun
    /\ leads = <<>> \/ scraping
    /\ Len(leads) < MaxBatch
    /\ Len(pending) + Len(leads) < MaxPending
    /\ EvaluateEntry(url, article, r, v)
    /\ UNCHANGED <<storeVars, pc, path, cur, emb, rel, val, ops, result,
                   docs0, utilVars, run, reviewVars, slack>>

\* filter_duplicates: the loop hands the next scraped lead to
\* check_duplicate_lead
filter_duplicates(p) ==
    /\ leads /= <<>> /\ ~run.awaiting
    /\ Begin(p, "check_duplicate_lead", "cd_url", Head(leads))
    /\ leads' = Tail(leads)
    /\ scraping' = FALSE
    /\ fetchLog' = NoFetch
    /\ run' = [run EXCEPT !.batch = IF run.handled = <<>> THEN leads ELSE @,
                          !.handled = Append(@, Head(leads).id),
                          !.awaiting = TRUE]

\* if not check_duplicate_lead(lead, components): unique_leads.append(lead)
filter_collect(p) ==
    /\ pc[p] = "idle" /\ run.awaiting
    /\ unique' = IF result[p].ret THEN unique ELSE Append(unique, cur[p])
    /\ run' = [run EXCEPT !.awaiting = FALSE,
                          !.returns = Append(@, result[p].ret)]
    /\ UNCHANGED <<storeVars, fetchVars, pc, path, cur, emb, rel, val, ops,
                   result, docs0, utilVars, pending, slack>>

\* for lead in unique_leads: if lead not in pending_leads: append (the
\* leads of one scrape have ids of their own, so no two are equal)
append_pending ==
    /\ Idle /\ leads = <<>> /\ ~run.awaiting /\ run.handled /= <<>>
    /\ pending' = pending \o SelectSeq(unique,
                      LAMBDA l : \A k \in 1..Len(pending) : pending[k] /= l)
    /\ unique' = <<>>
    /\ run' = NoRun
    /\ UNCHANGED <<storeVars, fetchVars, pc, path, cur, emb, rel, val, ops,
                   result, docs0, utilVars, slack>>

\* [lead for lead in pending_leads if lead not in leads_to_remove]
Without(queue, lead) == SelectSeq(queue, LAMBDA l : l /= lead)

\* what the generation call came back with, as the notifier logs it
GenerationEvent(gen) ==
    CASE gen.kind = "payload" /\ RequiredFields \subseteq gen.fields
           -> "generation:complete"
      [] gen.kind = "payload" /\ ~(RequiredFields \subseteq gen.fields)
           -> "generation:missing_fields"
      [] gen.kind = "no_tool_calls" -> "generation:no_tool_calls"
      [] gen.kind = "no_arguments" -> "generation:no_arguments"
      [] gen.kind = "unparseable" -> "generation:unparseable"
      [] OTHER -> "generation:raised"

\* an Approve handler that drops the lead whatever notify returned
approve_and_drop(p, k) ==
    /\ Quiet
    /\ \E gen \in Generations, post \in PostOutcomes :
          LET lead == pending[k]
              sent == notifier_notify(lead, gen, post)
          IN  /\ path' = [path EXCEPT ![p] = "approve"]
              /\ cur' = [cur EXCEPT ![p] = lead]
              /\ ops' = [ops EXCEPT ![p] = <<GenerationEvent(gen)>>]
              /\ result' = [result EXCEPT ![p] =
                              [ret |-> sent.ret, why |-> "notified"]]
              /\ slack' = sent.posts
              /\ pending' = Without(pending, lead)
    /\ UNCHANGED <<storeVars, fetchVars, pc, emb, rel, val, docs0, utilVars,
                   run, unique>>

\* Approve & Send to Slack on pending lead k:
\* success = components["notifier"].notify(lead)
approve(p, k) ==
    /\ Quiet
    /\ \E gen \in Generations, post \in PostOutcomes :
          LET lead == pending[k]
              sent == notifier_notify(lead, gen, post)
          IN  /\ path' = [path EXCEPT ![p] = "approve"]
              /\ cur' = [cur EXCEPT ![p] = lead]
              /\ ops' = [ops EXCEPT ![p] = <<GenerationEvent(gen)>>]
              /\ result' = [result EXCEPT ![p] =
                              [ret |-> sent.ret, why |-> "notified"]]
              /\ slack' = sent.posts
              /\ pending' = IF sent.ret THEN Without(pending, lead)
                                        ELSE pending
    /\ UNCHANGED <<storeVars, fetchVars, pc, emb, rel, val, docs0, utilVars,
                   run, unique>>

\* Reject on pending lead k: nothing is called, the lead is marked for
\* removal
reject(p, k) ==
    /\ Quiet
    /\ path' = [path EXCEPT ![p] = "reject"]
    /\ cur' = [cur EXCEPT ![p] = pending[k]]
    /\ ops' = [ops EXCEPT ![p] = <<>>]
    /\ result' = [result EXCEPT ![p] = NoResult]
    /\ slack' = <<>>
    /\ pending' = Without(pending, pending[k])
    /\ UNCHANGED <<storeVars, fetchVars, pc, emb, rel, val, docs0, utilVars,
                   run, unique>>

\* Clear Pending Leads
clear_pending ==
    /\ Quiet /\ pending /= <<>>
    /\ pending' = <<>>
    /\ UNCHANGED <<storeVars, fetchVars, pc, path, cur, emb, rel, val, ops,
                   result, docs0, utilVars, run, unique, slack>>

\* ------------------------------------------------------------ specifications
Commit(p) == store(p) \/ vector(p) \/ cleanup(p) \/ notify(p)

\* Callers hand leads to the two entry points. Single process, single
\* writer: one invocation at a time.
Next ==
    \/ Idle /\ \E lead \in CallerLeads : process_lead(1, lead)
    \/ Idle /\ \E lead \in IngestedLeads : process_and_store_lead(1, lead)
    \/ Idle /\ \E lead \in ScrapedLeads : check_duplicate_lead(1, lead)
    \/ pl_dup(1) \/ pl_rel(1) \/ pl_val(1) \/ pl_embed(1)
    \/ ps_url(1) \/ ps_embed(1) \/ ps_dup(1)
    \/ CheckDuplicate(1)
    \/ Commit(1)

Spec == Init /\ [][Next]_vars

\* run_scraping_cycle, once per run: leads = self.scraper.scrape(), then
\* self.process_leads(leads).
NextCycle ==
    \/ \E url \in Urls, article \in Articles,
          r \in RelevanceResults, v \in ValueResults :
          fetch_entry(url, article, r, v)
    \/ Idle /\ process_leads(1)
    \/ pl_dup(1) \/ pl_rel(1) \/ pl_val(1) \/ pl_embed(1)
    \/ Commit(1)
    \/ process_leads_count(1)
    \/ process_leads_return

SpecCycle == Init /\ [][NextCycle]_vars

\* what the pipeline has left in the stores when a review session starts:
\* nothing, or one committed lead
SessionStores ==
    {<<<<>>, EmptyIndex>>} \cup
    {<<<<LeadRecord(Lead(NumIds + 1, url, a, NoScore),
                    generate_embedding(<<a[1], a[2]>>))>>,
       (NumIds + 1) :> generate_embedding(<<a[1], a[2]>>)>> :
         url \in Urls, a \in Articles}

InitReview ==
    /\ \E st \in SessionStores : docs = st[1] /\ vecs = st[2]
    /\ pc = [p \in Procs |-> "idle"]
    /\ path = [p \in Procs |-> "none"]
    /\ cur = [p \in Procs |-> NoLead]
    /\ emb = [p \in Procs |-> NoEmb]
    /\ rel = [p \in Procs |-> NoRel]
    /\ val = [p \in Procs |-> NoVal]
    /\ ops = [p \in Procs |-> <<>>]
    /\ result = [p \in Procs |-> NoResult]
    /\ docs0 = [p \in Procs |-> <<>>]
    /\ leads = <<>>
    /\ scraping = FALSE
    /\ fetchLog = NoFetch
    /\ run = NoRun
    /\ pending = <<>>
    /\ unique = <<>>
    /\ slack = <<>>
    /\ notice = NoNotice
    /\ tc = NoScrape
    /\ gate = NoGate
    /\ norm = NoNorm

\* the evaluations of a feed entry, as far as the dashboard tells them
\* apart: kept or not
SessionRelevance ==
    [is_relevant : BOOLEAN, relevance_score : {INGEST_RELEVANCE_MIN}]
SessionValue == [is_valuable : BOOLEAN, value_type : {<<"funding_round">>}]

\* one review session of the dashboard, the database being available
NextReview ==
    \/ \E url \in Urls, article \in Articles,
          r \in SessionRelevance, v \in SessionValue :
          scrape_leads(url, article, r, v)
    \/ Idle /\ filter_duplicates(1)
    \/ CheckDuplicate(1)
    \/ filter_collect(1)
    \/ append_pending
    \/ \E k \in 1..Len(pending) : approve(1, k)
    \/ \E k \in 1..Len(pending) : reject(1, k)
    \/ clear_pending

SpecReview == InitReview /\ [][NextReview]_vars

\* the content normalizer on the descriptions a feed carries
NextNormalize ==
    \E content \in Contents, parsed \in BOOLEAN,
       outcome \in SummaryOutcomes : normalize(content, parsed, outcome)

SpecNormalize == Init /\ [][NextNormalize]_vars

\* a notifier under every configuration, on the leads the entry points
\* hand it
NextNotify ==
    \E flag \in BOOLEAN, webhook_set \in BOOLEAN,
       lead \in CallerLeads \cup IngestedLeads,
       gen \in Generations, post \in PostOutcomes :
       notify_call(flag, webhook_set, lead, gen, post)

SpecNotify == Init /\ [][NextNotify]_vars

\* one of two concurrent calls of process_and_store_lead starts: the two
\* leads carry one url and ids of their own
race_start(p, lead) ==
    /\ path[p] = "none"
    /\ process_and_store_lead(p, lead)
    /\ \A q \in Procs \ {p} :
          path[q] /= "none"
             => cur[q].url = lead.url /\ cur'[p].id /= cur[q].id

\* two calls of process_and_store_lead, their steps interleaved in any
\* order
NextRace ==
    \/ \E p \in Procs, lead \in IngestedLeads : race_start(p, lead)
    \/ \E p \in Procs : ps_url(p) \/ ps_embed(p) \/ ps_dup(p)
    \/ \E p \in Procs : Commit(p)

SpecRace == Init /\ [][NextRace]_vars

\* the two gates on every pair of evaluations
NextGates ==
    \E r \in AllRelevanceResults, v \in ValueResults : gate_both(r, v)

SpecGates == Init /\ [][NextGates]_vars

\* the steps of a running scrape()
ScrapeStep ==
    \/ tc_request_error
    \/ \E articles \in Pages : tc_request_ok(articles)
    \/ tc_request_raises
    \/ tc_sleep

\* TechCrunchScraper.scrape, called again and again
NextScrape == tc_scrape \/ ScrapeStep

SpecScrape == Init /\ [][NextScrape]_vars

\* a call that was made goes on: requests.get has a timeout, the sleep ends
SpecScrapeFair == SpecScrape /\ WF_vars(ScrapeStep)


\* ------------------------------------------------------------ claims
\* the entry points that commit a lead
CommitPaths == {"process_lead", "process_and_store_lead"}

\* call e was issued, with that outcome, by the current or last invocation p
Issued(p, e) == \E k \in 1..Len(ops[p]) : ops[p][k] = e

\* the record of invocation p went into the document store
Inserted(p) == Issued(p, "insert:ok") \/ Issued(p, "insert:unread")

\* a write or delete was issued to a store, whatever its outcome
TouchedStores(p) ==
    \E e \in {"insert:ok", "insert:unread", "insert:err", "upsert:ok",
              "upsert:err", "delete:ok", "delete:err"} : Issued(p, e)

\* a duplicate lookup of invocation p ended in an error
LookupFailed(p) == Issued(p, "url_lookup:err") \/ Issued(p, "semantic:err")

\* a service call of invocation p raised, or an evaluation gate turned the
\* lead away
Disturbed(p) ==
    \/ LookupFailed(p) \/ Issued(p, "embed:err")
    \/ Issued(p, "relevance:fail") \/ Issued(p, "value:fail")

\* ids of the leads in both stores
Committed == {i \in DOMAIN vecs : ById(docs, i) /= {}}

\* C1: when the document-store insert succeeded and the vector-index insert
\* failed, then once the commit has returned the document store holds no
\* record with the lead's id, and the commit returned False.
C1_CompensatedOnVectorFailure ==
    \A p \in Procs :
        (pc[p] = "idle" /\ Issued(p, "insert:ok") /\ Issued(p, "upsert:err"))
            => (ById(docs, cur[p].id) = {} /\ ~result[p].ret)

\* C2: whenever no commit is in progress, every id in the document store is
\* also in the vector index.
C2_NoDocumentWithoutVector ==
    Idle => \A k \in 1..Len(docs) : docs[k].id \in DOMAIN vecs

\* C3: once a commit has returned True, the lookup by the lead's url returns
\* a record with the lead's id, and the vector index holds an entry under
\* that id.
C3_CommittedInBothStores ==
    \A p \in Procs :
        (pc[p] = "idle" /\ result[p].ret /\ path[p] \in CommitPaths)
            => /\ get_lead_by_url(docs, cur[p].url).id = cur[p].id
               /\ cur[p].id \in DOMAIN vecs

\* a commit returned True into a store that already held another lead
C3_Witness ==
    pc[1] = "idle" /\ result[1].ret /\ Len(docs) = 2 /\ docs[2].id = cur[1].id

\* C4: the vector write of a commit is issued only after its document insert
\* succeeded, and no id is in the vector index without a document-store
\* record of that id.
C4_NoVectorWithoutDocument ==
    /\ \A i \in DOMAIN vecs : ById(docs, i) /= {}
    /\ \A p \in Procs : \A k \in 1..Len(ops[p]) :
          ops[p][k] \in {"upsert:ok", "upsert:err"}
              => \E j \in 1..(k - 1) : ops[p][j] = "insert:ok"

\* a compensating delete ran for a lead whose id is also the id of a lead
\* in the vector index
C4_Witness ==
    /\ pc[1] = "idle" /\ Issued(1, "delete:ok")
    /\ cur[1].id \in DOMAIN vecs

\* C5: no two document-store records have the same url.
C5_UrlUnique ==
    \A j, k \in 1..Len(docs) : j /= k => docs[j].url /= docs[k].url

\* a lead whose url the store already held reached the insert and was refused
C5_Witness ==
    /\ pc[1] = "idle" /\ Issued(1, "insert:err")
    /\ ByUrl(docs0[1], cur[1].url) /= {}
    /\ Len(docs) = 2

\* C6: a lead whose url belongs to a committed lead is rejected by the
\* duplicate check, and no insert, upsert or delete is issued for it (here
\* for the submissions that no failing service call and no evaluation gate
\* stops first).
C6_ResubmittedUrlRejectedBeforeWrites ==
    \A p \in Procs :
        (/\ pc[p] = "idle" /\ result[p].why /= "none"
         /\ ~Disturbed(p)
         /\ \E k \in 1..Len(docs0[p]) :
               docs0[p][k].url = cur[p].url /\ docs0[p][k].id \in DOMAIN vecs)
            => (result[p].why = "duplicate" /\ ~TouchedStores(p))

\* C7: with the similarity lookup succeeding, process_lead never commits a
\* lead whose embedding has similarity >= 0.85 with the embedding of
\* another committed lead.
C7_NoSemanticDuplicates ==
    \A p \in Procs :
        (/\ pc[p] = "idle" /\ result[p].ret /\ path[p] = "process_lead"
         /\ Issued(p, "semantic:miss"))
            => \A i \in Committed \ {cur[p].id} :
                  Score(vecs[i], vecs[cur[p].id]) < SIMILARITY_THRESHOLD

\* C8: no lead is written to the document store or the vector index with a
\* relevance_score below 70 (here for the commits whose lookups succeed).
C8_NoWriteBelowCommitBar ==
    \A p \in Procs :
        ((Inserted(p) \/ Issued(p, "upsert:ok")) /\ ~LookupFailed(p))
            => cur[p].relevance_score >= COMMIT_RELEVANCE_MIN

\* C9: a candidate evaluated is_valuable = false is discarded, whatever its
\* value_type: _fetch_news does not return it, process_lead returns False
\* for it without touching a store.
C9_NotValuableDiscarded ==
    /\ (fetchLog.val /= NoVal /\ ~fetchLog.val.is_valuable) => ~fetchLog.kept
    /\ \A p \in Procs :
          (val[p] /= NoVal /\ ~val[p].is_valuable)
              => (pc[p] = "idle" /\ ~result[p].ret /\ ~TouchedStores(p))

\* process_lead discarded a lead of the batch that is not valuable though
\* its value_type names a type other than "none"
C9_Witness ==
    /\ pc[1] = "idle" /\ result[1].why = "no_value"
    /\ ~val[1].is_valuable /\ val[1].value_type = <<"funding_round">>

\* C10: a document-store insert is preceded, in the same invocation, by the
\* four gates: relevance, value, url lookup without a hit, semantic lookup
\* not above the threshold.
C10_InsertAfterFourGates ==
    \A p \in Procs :
        Inserted(p)
            => /\ Issued(p, "relevance:pass") /\ Issued(p, "value:pass")
               /\ Issued(p, "url_lookup:miss") /\ Issued(p, "semantic:miss")

\* a call of invocation p to a store, to the embedding service or to the
\* webhook failed
CallFailed(p) ==
    \E e \in {"semantic:err", "url_lookup:err", "embed:err", "insert:err",
              "insert:unread", "upsert:err", "delete:err", "notify:fail"} :
        Issued(p, e)

\* C11: a candidate evaluated relevant with score 85 and valuable with
\* value_type ["funding_round"], whose id and url are new to the document
\* store and whose text is below the threshold against every stored vector,
\* is committed by process_lead when every call succeeds: True is returned,
\* both stores hold it and get_recent_leads(1) returns it.
C11_NewCandidateCommitted ==
    \A p \in Procs :
        (/\ pc[p] = "idle" /\ path[p] = "process_lead"
         /\ result[p].why /= "none" /\ ~CallFailed(p)
         /\ rel[p] \in {NoRel, [is_relevant |-> TRUE, relevance_score |-> 85]}
         /\ val[p] \in {NoVal, [is_valuable |-> TRUE,
                                 value_type |-> <<"funding_round">>]}
         /\ ByUrl(docs0[p], cur[p].url) = {}
         /\ ById(docs0[p], cur[p].id) = {}
         /\ \A i \in DOMAIN vecs \ {cur[p].id} :
               Score(vecs[i], generate_embedding(LeadText(cur[p])))
                   < SIMILARITY_THRESHOLD)
            => /\ result[p].ret
               /\ get_lead_by_url(docs, cur[p].url).id = cur[p].id
               /\ cur[p].id \in DOMAIN vecs
               /\ get_recent_leads(docs, 1)
                     = <<LeadRecord(cur[p], generate_embedding(LeadText(cur[p])))>>

\* the calls of invocation p with outcome in E
Calls(p, E) == {k \in 1..Len(ops[p]) : ops[p][k] \in E}

\* C13: when the notification of a lead written to both stores fails, the
\* commit returns True, the webhook was posted once and not again, no delete
\* was issued, and the stores are as the two writes left them: the
\* document store is the one the invocation found plus the lead's record,
\* the vector index holds the lead's vector.
C13_NotifyFailureKeepsCommit ==
    \A p \in Procs :
        (pc[p] = "idle" /\ Issued(p, "notify:fail"))
            => /\ result[p].ret
               /\ Cardinality(Calls(p, {"notify:ok", "notify:fail"})) = 1
               /\ Len(slack) = 1
               /\ Calls(p, {"delete:ok", "delete:err"}) = {}
               /\ docs = Append(docs0[p], LeadRecord(cur[p], emb[p]))
               /\ cur[p].id \in DOMAIN vecs /\ vecs[cur[p].id] = emb[p]

\* the POST of a second lead's notification ended in a transport exception
C13_Witness ==
    /\ pc[1] = "idle" /\ Issued(1, "notify:fail")
    /\ Len(docs) = 2 /\ Len(slack) = 1 /\ slack[1].status = "exception"

\* C14: when the embedding of the lead text cannot be generated, the commit
\* returns False at once: no insert, upsert or delete is issued, the stores
\* are as the invocation found them, and nothing is posted.
C14_EmbeddingFailureAborts ==
    \A p \in Procs :
        Issued(p, "embed:err")
            => /\ pc[p] = "idle" /\ ~result[p].ret
               /\ ~TouchedStores(p) /\ docs = docs0[p]
               /\ Calls(p, {"notify:ok", "notify:fail"}) = {}
               /\ slack = <<>>

\* the embedding failed in process_lead, after both gates, with a lead
\* already in the stores
C14_Witness ==
    /\ Issued(1, "embed:err") /\ Issued(1, "value:pass")
    /\ Len(docs) = 1 /\ DOMAIN vecs /= {}

\* C15: when the document-store insert returns no record, the commit
\* returns False at once: no upsert, no delete and no notification is
\* issued for the lead.
C15_InsertFailureAborts ==
    \A p \in Procs :
        (Issued(p, "insert:err") \/ Issued(p, "insert:unread"))
            => /\ pc[p] = "idle" /\ ~result[p].ret
               /\ Calls(p, {"upsert:ok", "upsert:err", "delete:ok",
                            "delete:err", "notify:ok", "notify:fail"}) = {}
               /\ slack = <<>>

\* the insert of process_and_store_lead raised
C15_Witness ==
    /\ Issued(1, "insert:err") /\ path[1] = "process_and_store_lead"
    /\ ByUrl(docs, cur[1].url) = {}

\* C16: a duplicate lookup that raises answers 'not a duplicate': right
\* after a failed url lookup or a failed semantic lookup the invocation is
\* at the step that follows a miss, and a lead is only ever returned as a
\* duplicate by a lookup that found something.
C16_LookupErrorsFailOpen ==
    \A p \in Procs :
        LET n == Len(ops[p])
        IN  /\ (n > 0 /\ ops[p][n] = "url_lookup:err")
                  => pc[p] \in {"ps_embed", "cd_sem"}
            /\ (n > 0 /\ ops[p][n] = "semantic:err")
                  => pc[p] \in {"pl_rel", "store", "cd_pend"}
            /\ (pc[p] = "idle" /\ result[p].why = "duplicate")
                  => ops[p][n] \in {"url_lookup:hit", "semantic:hit",
                                     "pending:hit"}

\* check_duplicate_lead answered 'not a duplicate' for a lead whose url is
\* in the document store, both of its lookups having raised
C16_Witness ==
    /\ pc[1] = "idle" /\ path[1] = "check_duplicate_lead"
    /\ Issued(1, "url_lookup:err") /\ Issued(1, "semantic:err")
    /\ ~result[1].ret /\ ByUrl(docs, cur[1].url) /= {}

\* C17: in every path the url lookup comes first and short-circuits: a
\* semantic lookup is issued only after a url lookup of the same
\* invocation found nothing, and after a url hit no embedding is generated
\* and no semantic lookup is issued.
C17_UrlLookupFirst ==
    \A p \in Procs :
        /\ \A k \in Calls(p, {"semantic:hit", "semantic:miss", "semantic:err"}) :
              \E j \in 1..(k - 1) :
                  ops[p][j] \in {"url_lookup:miss", "url_lookup:err"}
        /\ Issued(p, "url_lookup:hit")
              => Calls(p, {"embed:ok", "embed:err", "semantic:hit",
                           "semantic:miss", "semantic:err"}) = {}

\* C12: when the generation call comes back without a complete payload
\* (a field missing, no tool call, no arguments, arguments that do not
\* parse, an exception), notify makes one POST, returns True exactly when
\* its status is 200, and the text posted carries the lead's company, title
\* and url.
C12_FallbackStillDelivers ==
    \A p \in Procs :
        (/\ path[p] = "approve" /\ ops[p] /= <<>>
         /\ ops[p][1] \in {"generation:missing_fields",
                           "generation:no_tool_calls",
                           "generation:no_arguments",
                           "generation:unparseable", "generation:raised"})
            => /\ Len(slack) = 1
               /\ result[p].ret = (slack[1].status = "200")
               /\ slack[1].text.company = TrackedCompany
               /\ slack[1].text.title = cur[p].title
               /\ slack[1].text.url = cur[p].url

\* a payload with a field missing was replaced by the fallback text, and
\* the POST was answered with 200
C12_Witness ==
    /\ path[1] = "approve" /\ ops[1] = <<"generation:missing_fields">>
    /\ result[1].ret /\ Len(slack) = 1
    /\ slack[1].text.template = "fallback" /\ slack[1].text.url = 2

\* a lead with that url is in the queue
UrlQueued(queue, url) == \E k \in 1..Len(queue) : queue[k].url = url

\* C18: in a review session, check_duplicate_lead returns True for a
\* scraped lead whose url is the url of a lead in the pending-review queue,
\* and no step appends to the queue a lead whose url the queue already
\* held.
C18_PendingUrlNotRequeued ==
    /\ [](\A p \in Procs :
            (/\ pc[p] = "idle" /\ path[p] = "check_duplicate_lead"
             /\ run.awaiting /\ UrlQueued(pending, cur[p].url))
                => result[p].ret)
    /\ [][\A k \in 1..Len(pending') :
            k > Len(pending) => ~UrlQueued(pending, pending'[k].url)]_vars

\* a later scrape of the session returned a lead whose url is queued and
\* is in neither store; the queue check found it
C18_Witness ==
    /\ pc[1] = "idle" /\ Issued(1, "pending:hit") /\ run.awaiting
    /\ docs = <<>> /\ Len(pending) = 1 /\ pending[1].id /= cur[1].id

\* C19: an evaluator that raises yields its default (is_relevant false with
\* score 0, is_valuable false with ["none"]), and the candidate is then
\* discarded by the gate: _fetch_news does not keep it, process_lead
\* returns False as for any article that fails the gate, with no store
\* call and no POST.
C19_EvaluatorFailureDiscards ==
    /\ fetchLog.rel = RelevanceDefault
          => (~fetchLog.kept /\ fetchLog.val = NoVal)
    /\ fetchLog.val = ValueDefault => ~fetchLog.kept
    /\ \A p \in Procs :
          /\ rel[p] = RelevanceDefault
                => /\ pc[p] = "idle" /\ result[p] = [ret |-> FALSE,
                                                      why |-> "not_relevant"]
                   /\ ~TouchedStores(p) /\ slack = <<>>
          /\ val[p] = ValueDefault
                => /\ pc[p] = "idle" /\ result[p] = [ret |-> FALSE,
                                                      why |-> "no_value"]
                   /\ ~TouchedStores(p) /\ slack = <<>>

\* the relevance evaluator raised on the second lead of a batch whose
\* first lead was committed
C19_Witness ==
    /\ rel[1] = RelevanceDefault /\ pc[1] = "idle"
    /\ Len(run.handled) = 2 /\ Len(docs) = 1 /\ docs = docs0[1]

\* ids of the leads of a batch, in order
LeadIds(batch) == [k \in 1..Len(batch) |-> batch[k].id]

\* C20: process_leads hands the leads of the batch to process_lead once
\* each and in order, whatever the earlier calls returned, and when it
\* returns it has handled all of them and returns the number of calls
\* that returned True.
C20_BatchFullyProcessed ==
    /\ run.handled /= <<>>
          => /\ run.handled \o LeadIds(leads) = LeadIds(run.batch)
             /\ Len(run.returns) + (IF run.awaiting THEN 1 ELSE 0)
                   = Len(run.handled)
    /\ run.returned /= NoCount
          => /\ run.handled = LeadIds(run.batch)
             /\ Len(run.returns) = Len(run.batch)
             /\ run.returned
                   = Cardinality({k \in 1..Len(run.returns) : run.returns[k]})

\* process_leads returned 1 for a batch of two leads: the first call ended
\* in an exception, the second committed its lead
C20_Witness ==
    /\ run.returned = 1 /\ run.returns = <<FALSE, TRUE>>
    /\ Len(run.batch) = 2 /\ Len(docs) = 2 /\ DOMAIN vecs = {docs[2].id}

\* C21: when the summary-generation call fails, _generate_clean_description
\* returns the cleaned text (what _clean_html_content made of the input),
\* not the raw input.
C21_FailureReturnsCleaned ==
    norm.failed => norm.returned = norm.cleaned

\* the lead is in the document store and in the vector index
InBothStores(lead) ==
    /\ \E k \in 1..Len(docs) : docs[k].id = lead.id /\ docs[k].url = lead.url
    /\ lead.id \in DOMAIN vecs

\* C22: the notifier is called for a lead only when the lead is in both
\* stores: at the notify call of process_lead and process_and_store_lead,
\* and at the notify call of the dashboard's Approve & Send to Slack.
C22_NotifiedOnlyAfterCommit ==
    \A p \in Procs :
       (pc[p] = "notify" \/ path[p] = "approve") => InBothStores(cur[p])

\* C27: a commit that failed has left every record the document store held
\* when it started in place and unchanged: its compensating delete removed
\* nothing but the record it had inserted itself.
C27_CleanupSparesOlderRecords ==
    \A p \in Procs :
       (pc[p] = "idle" /\ path[p] \in CommitPaths /\ ~result[p].ret)
          => \A k \in 1..Len(docs0[p]) :
                \E j \in 1..Len(docs) : docs[j] = docs0[p][k]

\* the handler of invocation p ran in this step
Handled(p, handler) ==
    /\ path'[p] = handler
    /\ <<path[p], cur[p], ops[p], result[p], slack>>
          /= <<path'[p], cur'[p], ops'[p], result'[p], slack'>>

\* the queue without its k-th lead
Dropped(queue, k) ==
    [j \in 1..(Len(queue) - 1) |-> IF j < k THEN queue[j] ELSE queue[j + 1]]

\* the queue lost the lead and nothing else, and only one lead of the
\* queue was that lead
LostExactly(lead) ==
    /\ Cardinality({k \in 1..Len(pending) : pending[k] = lead}) = 1
    /\ \E k \in 1..Len(pending) :
          pending[k] = lead /\ pending' = Dropped(pending, k)

\* C23: Approve removes exactly the approved lead from the pending queue
\* when notify returned True and leaves the queue as it was when notify
\* returned False, after one POST at most; Reject removes exactly the
\* rejected lead; neither adds or removes any other lead.
C23_ApproveRejectFrame ==
    [][\A p \in Procs :
          /\ Handled(p, "approve")
                => /\ Len(slack') <= 1
                   /\ result'[p].ret => LostExactly(cur'[p])
                   /\ ~result'[p].ret => pending' = pending
          /\ Handled(p, "reject") => LostExactly(cur'[p])]_vars

\* a failed Approve left both pending leads in the queue
C23_Witness ==
    /\ path[1] = "approve" /\ ~result[1].ret /\ Len(slack) = 1
    /\ Len(pending) = 2 /\ pending[2] = cur[1]

\* C26: the pending-review queue never holds two leads with the same url,
\* whatever the scrapes returned.
C26_PendingUrlsDistinct ==
    \A j, k \in 1..Len(pending) :
       pending[j].url = pending[k].url => j = k

\* C29: notify returns True only when a POST for the lead was made and
\* answered with status 200; with Slack notifications disabled it does not
\* return True.
C29_TrueOnlyWhenDelivered ==
    notice.ret
       => /\ Len(notice.posts) = 1
          /\ notice.posts[1].status = "200"
          /\ notice.posts[1].text.url = notice.lead.url

\* the attempts of the scrape so far that ended in a request-level error
RequestErrors ==
    Cardinality({k \in 1..Len(tc.attempts) : tc.attempts[k] = "request_error"})

\* C30: scrape terminates; it makes MAX_RETRIES requests at most, one more
\* only after a request-level error, sleeping RETRY_DELAY between two
\* attempts and not after the last; it returns the parsed leads of the
\* first attempt that succeeded, [] once MAX_RETRIES attempts failed, and
\* [] at once on any other exception.
C30_ScrapeTerminates ==
    /\ [](/\ Len(tc.attempts) <= MAX_RETRIES
          /\ \A k \in 1..(Len(tc.attempts) - 1) :
                tc.attempts[k] = "request_error"
          /\ tc.pc = "request"
                => /\ RequestErrors = Len(tc.attempts)
                   /\ tc.waited = RETRY_DELAY * Len(tc.attempts)
          /\ tc.pc = "done"
                => LET last == tc.attempts[Len(tc.attempts)]
                   IN  /\ tc.attempts /= <<>>
                       /\ tc.waited = RETRY_DELAY * (Len(tc.attempts) - 1)
                       /\ last = "ok"
                             => tc.returned = ParsedLeads(tc.articles)
                       /\ last = "error" => tc.returned = <<>>
                       /\ last = "request_error"
                             => /\ tc.returned = <<>>
                                /\ Len(tc.attempts) = MAX_RETRIES)
    /\ (tc.pc \in {"request", "sleep"}) ~> (tc.pc = "done")

\* the third request failed as the two before it: scrape slept twice and
\* returned []
C30_Witness ==
    /\ tc.pc = "done" /\ tc.returned = <<>>
    /\ tc.attempts = <<"request_error", "request_error", "request_error">>
    /\ tc.waited = 2 * RETRY_DELAY

\* C24: evaluations that pass the gates of process_lead pass the gates of
\* _fetch_news; evaluations that pass _fetch_news and not process_lead are
\* exactly those kept with a score of 50..69 or with value_type ["none"].
C24_CommitGateStricter ==
    /\ gate.commit => gate.ingest
    /\ (gate.ingest /\ ~gate.commit)
          <=> /\ gate.rel.is_relevant /\ gate.val.is_valuable
              /\ gate.rel.relevance_score >= 50
              /\ \/ gate.rel.relevance_score \in 50..69
                 \/ gate.val.value_type = <<"none">>

\* a score of 69 with a value type: kept at ingestion, turned away at commit
C24_Witness ==
    /\ gate.ingest /\ ~gate.commit
    /\ gate.rel.relevance_score = 69
    /\ gate.val.value_type = <<"funding_round">>

\* the calls of invocation p that made the embedding service embed a text:
\* generate_embedding, and check_duplicate, which embeds its argument
EmbeddingCalls(p) ==
    Calls(p, {"embed:ok", "embed:err", "semantic:hit", "semantic:miss",
              "semantic:err"})

\* C25: on both commit paths the text of the semantic check is the text
\* whose embedding is stored (company + title + description), one
\* embedding is generated per lead, and the vector in the document store
\* is the vector in the index under the same id.
C25_OneEmbeddingPerLead ==
    \A p \in Procs :
       path[p] \in CommitPaths
          => /\ Calls(p, {"semantic:hit", "semantic:miss", "semantic:err"}) /= {}
                   => CheckText(path[p], cur[p]) = LeadText(cur[p])
             /\ Cardinality(EmbeddingCalls(p)) <= 1
             /\ (pc[p] = "idle" /\ result[p].ret)
                   => \E k \in 1..Len(docs) :
                         /\ docs[k].id = cur[p].id
                         /\ docs[k].vector_embedding = vecs[cur[p].id]

\* both calls of the race were made and have returned
RaceOver ==
    \A p \in Procs : path[p] = "process_and_store_lead" /\ pc[p] = "idle"

\* the calls of the race that returned True
Winners == {p \in Procs : pc[p] = "idle" /\ result[p].ret}

\* no call to a service failed in the race, but for one insert
CleanRace ==
    /\ \A p \in Procs :
          Calls(p, {"url_lookup:err", "semantic:err", "embed:err",
                    "insert:unread", "upsert:err", "delete:ok",
                    "delete:err"}) = {}
    /\ \E p \in Procs : ~Issued(p, "insert:err")

====
